---- MODULE Spec2Model ----
(***************************************************************************)
(* The order dialogue graph of src/src/agents/fastfood_agent.py: four      *)
(* nodes (capture_order, handle_conversation, confirm_order,               *)
(* register_order), two routers (check_capture, check_confirmation) and    *)
(* the compiled graph with its checkpointer.                               *)
(*                                                                         *)
(* Text is a sequence of chunks (strings).  A chunk is either a piece of   *)
(* whitespace or a word; str.strip() and str.lower() act on the chunks.    *)
(* The session state is a Python dict: a function whose DOMAIN is the set  *)
(* of keys that have been written.                                         *)
(***************************************************************************)
EXTENDS Integers, Sequences, FiniteSets, TLC

VARIABLES state, pc, run, last, captured

vars == <<state, pc, run, last, captured>>

\* Longest transcript explored.
MaxMessages == 7

(***************************************************************************)
(* Text helpers                                                            *)
(***************************************************************************)
Whitespace == {" ", "\n"}

RECURSIVE lstrip(_)
lstrip(s) ==
  IF s # <<>> /\ Head(s) \in Whitespace THEN lstrip(Tail(s)) ELSE s

RECURSIVE rstrip(_)
rstrip(s) ==
  IF s # <<>> /\ s[Len(s)] \in Whitespace
  THEN rstrip(SubSeq(s, 1, Len(s) - 1))
  ELSE s

strip(s) == rstrip(lstrip(s))

lower_chunk(c) ==
  CASE c = "Complete" -> "complete"
    [] c = "COMPLETE" -> "complete"
    [] c = "Incomplete" -> "incomplete"
    [] c = "Confirm" -> "confirm"
    [] c = "Change" -> "change"
    [] c = "Talvez" -> "talvez"
    [] OTHER -> c

lower(s) == [i \in 1..Len(s) |-> lower_chunk(s[i])]

(***************************************************************************)
(* What the completion capability and the user can say                     *)
(***************************************************************************)
UserTurns == { <<"Quero 1 pizza">>, <<"sim">> }

OrderReplies == { <<"1 pizza">>, <<" ", "2 refri", "\n">>, <<" ">> }

ValidationReplies ==
  { <<"complete">>, <<" ", "Complete", "\n">>, <<"incomplete">>,
    <<"complete", ".">> }

ConversationReplies == { <<"Qual o seu pedido?", " ">> }

ConfirmReplies == { <<"\n", "Confirma o pedido?">> }

IntentReplies ==
  { <<"confirm">>, <<"Confirm", "\n">>, <<"change">>, <<"Talvez">> }

NoText == <<>>

(***************************************************************************)
(* Messages and the state dict                                             *)
(***************************************************************************)
EmptyDict == [k \in {} |-> k]

HumanMessage(content) ==
  [type |-> "human", content |-> content, response_metadata |-> EmptyDict]

AIMessage(content) ==
  [type |-> "ai", content |-> content, response_metadata |-> EmptyDict]

Put(st, k, v) == [x \in DOMAIN st \cup {k} |-> IF x = k THEN v ELSE st[x]]

\* dict.get: <<v>> when the key is present, <<>> for None.
Get(st, k) == IF k \in DOMAIN st THEN <<st[k]>> ELSE <<>>

AppendMessage(st, m) == Put(st, "messages", Append(st["messages"], m))

\* AgentState(MessagesState, total=False): messages plus optional keys.
AgentStateKeys ==
  {"messages", "order_details", "user_response",
   "capture_order_state", "confirm_order_state"}

captured_text == <<"Detalhes do pedido capturados com sucesso!">>

missing_text ==
  <<"Parece que faltam alguns detalhes no seu pedido. ",
    "Por favor, forneca mais informacoes.">>

final_message ==
  <<"Pedido registrado com sucesso!\n",
    "Agradecemos sua preferencia! Seu pedido ja esta a caminho.\n",
    "Se quiser fazer outro pedido, e so mandar uma mensagem aqui no chat!">>

(***************************************************************************)
(* Nodes.  Each returns the dict as the body left it (st), the exception   *)
(* that ended it (exc) and what the model answered.  fail is the index of  *)
(* the completion call that raises, 0 when none does.                      *)
(***************************************************************************)
\* capture_order whose complete branch does not store order_details.
capture_order_no_details(st, order_reply, validation_reply, fail) ==
  IF fail \in {1, 2}
  THEN [st |-> st, exc |-> "ModelError",
        validation_result |-> NoText, intent |-> NoText,
        user_response |-> NoText]
  ELSE
    LET validation_result == lower(strip(validation_reply))
    IN IF validation_result = <<"complete">>
       THEN [st |-> AppendMessage(Put(st, "capture_order_state", "order"),
                                  AIMessage(captured_text)),
             exc |-> "none",
             validation_result |-> validation_result, intent |-> NoText,
             user_response |-> NoText]
       ELSE [st |-> Put(AppendMessage(st, AIMessage(missing_text)),
                        "capture_order_state", "conversation"),
             exc |-> "none",
             validation_result |-> validation_result, intent |-> NoText,
             user_response |-> NoText]

\* capture_order whose incomplete branch forgets to write capture_order_state.
capture_order_stale(st, order_reply, validation_reply, fail) ==
  IF fail \in {1, 2}
  THEN [st |-> st, exc |-> "ModelError",
        validation_result |-> NoText, intent |-> NoText,
        user_response |-> NoText]
  ELSE
    LET order_details == strip(order_reply)
        validation_result == lower(strip(validation_reply))
    IN IF validation_result = <<"complete">>
       THEN [st |-> AppendMessage(
                      Put(Put(st, "order_details", order_details),
                          "capture_order_state", "order"),
                      AIMessage(captured_text)),
             exc |-> "none",
             validation_result |-> validation_result, intent |-> NoText,
             user_response |-> NoText]
       ELSE [st |-> AppendMessage(st, AIMessage(missing_text)),
             exc |-> "none",
             validation_result |-> validation_result, intent |-> NoText,
             user_response |-> NoText]

capture_order(st, order_reply, validation_reply, fail) ==
  IF fail \in {1, 2}
  THEN [st |-> st, exc |-> "ModelError",
        validation_result |-> NoText, intent |-> NoText,
        user_response |-> NoText]
  ELSE
    LET order_details == strip(order_reply)
        validation_result == lower(strip(validation_reply))
    IN IF validation_result = <<"complete">>
       THEN [st |-> AppendMessage(
                      Put(Put(st, "order_details", order_details),
                          "capture_order_state", "order"),
                      AIMessage(captured_text)),
             exc |-> "none",
             validation_result |-> validation_result, intent |-> NoText,
        user_response |-> NoText]
       ELSE [st |-> Put(AppendMessage(st, AIMessage(missing_text)),
                        "capture_order_state", "conversation"),
             exc |-> "none",
             validation_result |-> validation_result, intent |-> NoText,
        user_response |-> NoText]

handle_conversation(st, reply, fail) ==
  IF fail = 1
  THEN [st |-> st, exc |-> "ModelError",
        validation_result |-> NoText, intent |-> NoText,
        user_response |-> NoText]
  ELSE [st |-> AppendMessage(st, AIMessage(strip(reply))),
        exc |-> "none",
        validation_result |-> NoText, intent |-> NoText,
        user_response |-> NoText]

\* confirm_order whose change branch also overwrites order_details.
confirm_order_clobber(st, confirm_reply, intent_reply, fail) ==
  IF "order_details" \notin DOMAIN st
  THEN [st |-> st, exc |-> "ValueError",
        validation_result |-> NoText, intent |-> NoText,
        user_response |-> NoText]
  ELSE IF fail = 1
  THEN [st |-> st, exc |-> "ModelError",
        validation_result |-> NoText, intent |-> NoText,
        user_response |-> NoText]
  ELSE
    LET confirm_message == strip(confirm_reply)
        appended == AppendMessage(st, AIMessage(confirm_message))
        intent == lower(strip(intent_reply))
    IN IF fail = 2
       THEN [st |-> appended, exc |-> "ModelError",
             validation_result |-> NoText, intent |-> NoText,
             user_response |-> NoText]
       ELSE IF intent = <<"confirm">>
       THEN [st |-> Put(appended, "confirm_order_state", "confirmed"),
             exc |-> "none",
             validation_result |-> NoText, intent |-> intent,
             user_response |-> confirm_message]
       ELSE IF intent = <<"change">>
       THEN [st |-> Put(Put(appended, "order_details", confirm_message),
                        "confirm_order_state", "redirect_to_capture"),
             exc |-> "none",
             validation_result |-> NoText, intent |-> intent,
             user_response |-> confirm_message]
       ELSE [st |-> appended, exc |-> "none",
             validation_result |-> NoText, intent |-> intent,
             user_response |-> confirm_message]

\* confirm_order that tests for order_details only after its first model call.
confirm_order_late_guard(st, confirm_reply, intent_reply, fail) ==
  IF fail = 1
  THEN [st |-> st, exc |-> "ModelError",
        validation_result |-> NoText, intent |-> NoText,
        user_response |-> NoText]
  ELSE IF "order_details" \notin DOMAIN st
  THEN [st |-> st, exc |-> "ValueError",
        validation_result |-> NoText, intent |-> NoText,
        user_response |-> NoText]
  ELSE
    LET confirm_message == strip(confirm_reply)
        appended == AppendMessage(st, AIMessage(confirm_message))
        intent == lower(strip(intent_reply))
    IN IF fail = 2
       THEN [st |-> appended, exc |-> "ModelError",
             validation_result |-> NoText, intent |-> NoText,
             user_response |-> NoText]
       ELSE IF intent = <<"confirm">>
       THEN [st |-> Put(appended, "confirm_order_state", "confirmed"),
             exc |-> "none",
             validation_result |-> NoText, intent |-> intent,
             user_response |-> confirm_message]
       ELSE IF intent = <<"change">>
       THEN [st |-> Put(appended, "confirm_order_state",
                        "redirect_to_capture"),
             exc |-> "none",
             validation_result |-> NoText, intent |-> intent,
             user_response |-> confirm_message]
       ELSE [st |-> appended, exc |-> "none",
             validation_result |-> NoText, intent |-> intent,
             user_response |-> confirm_message]

confirm_order(st, confirm_reply, intent_reply, fail) ==
  IF "order_details" \notin DOMAIN st
  THEN [st |-> st, exc |-> "ValueError",
        validation_result |-> NoText, intent |-> NoText,
        user_response |-> NoText]
  ELSE IF fail = 1
  THEN [st |-> st, exc |-> "ModelError",
        validation_result |-> NoText, intent |-> NoText,
        user_response |-> NoText]
  ELSE
    LET confirm_message == strip(confirm_reply)
        appended == AppendMessage(st, AIMessage(confirm_message))
        intent == lower(strip(intent_reply))
    IN IF fail = 2
       THEN [st |-> appended, exc |-> "ModelError",
             validation_result |-> NoText, intent |-> NoText,
        user_response |-> NoText]
       ELSE IF intent = <<"confirm">>
       THEN [st |-> Put(appended, "confirm_order_state", "confirmed"),
             exc |-> "none",
             validation_result |-> NoText, intent |-> intent,
             user_response |-> confirm_message]
       ELSE IF intent = <<"change">>
       THEN [st |-> Put(appended, "confirm_order_state",
                        "redirect_to_capture"),
             exc |-> "none",
             validation_result |-> NoText, intent |-> intent,
             user_response |-> confirm_message]
       ELSE [st |-> appended, exc |-> "none",
             validation_result |-> NoText, intent |-> intent,
             user_response |-> confirm_message]

\* register_order that reads the description from the wrong key.
register_order_wrong_key(st) ==
  [st |-> AppendMessage(st,
            [type |-> "ai", content |-> final_message,
             response_metadata |->
               [order_details |->
                  [description |-> Get(st, "user_response")]]]),
   exc |-> "none", validation_result |-> NoText, intent |-> NoText,
   user_response |-> NoText]

register_order(st) ==
  [st |-> AppendMessage(st,
            [type |-> "ai", content |-> final_message,
             response_metadata |->
               [order_details |->
                  [description |-> Get(st, "order_details")]]]),
   exc |-> "none", validation_result |-> NoText, intent |-> NoText,
        user_response |-> NoText]

(***************************************************************************)
(* Routers                                                                 *)
(***************************************************************************)
\* check_confirmation with the two return values swapped.
check_confirmation_swapped(st) ==
  IF "confirm_order_state" \notin DOMAIN st
  THEN [exc |-> "KeyError", ret |-> "None"]
  ELSE IF st["confirm_order_state"] = "confirmed"
  THEN [exc |-> "none", ret |-> "capture_order"]
  ELSE IF st["confirm_order_state"] = "redirect_to_capture"
  THEN [exc |-> "none", ret |-> "register_order"]
  ELSE [exc |-> "none", ret |-> "confirm_order"]

\* check_confirmation that stops sending the order back once the transcript
\* has grown past a few turns.
check_confirmation_capped(st) ==
  IF "confirm_order_state" \notin DOMAIN st
  THEN [exc |-> "KeyError", ret |-> "None"]
  ELSE IF st["confirm_order_state"] = "confirmed"
  THEN [exc |-> "none", ret |-> "register_order"]
  ELSE IF st["confirm_order_state"] = "redirect_to_capture"
  THEN IF Len(st["messages"]) >= 5
       THEN [exc |-> "none", ret |-> "register_order"]
       ELSE [exc |-> "none", ret |-> "capture_order"]
  ELSE [exc |-> "none", ret |-> "confirm_order"]

check_confirmation(st) ==
  IF "confirm_order_state" \notin DOMAIN st
  THEN [exc |-> "KeyError", ret |-> "None"]
  ELSE IF st["confirm_order_state"] = "confirmed"
  THEN [exc |-> "none", ret |-> "register_order"]
  ELSE IF st["confirm_order_state"] = "redirect_to_capture"
  THEN [exc |-> "none", ret |-> "capture_order"]
  ELSE [exc |-> "none", ret |-> "confirm_order"]

\* check_capture that misspells the value written by the incomplete branch.
check_capture_typo(st) ==
  IF Get(st, "capture_order_state") = <<"order">>
  THEN [exc |-> "none", ret |-> "confirm_order"]
  ELSE IF Get(st, "capture_order_state") = <<"conversa">>
  THEN [exc |-> "none", ret |-> "handle_conversation"]
  ELSE IF Get(st, "capture_order_state") = <<"end">>
  THEN [exc |-> "none", ret |-> "END"]
  ELSE [exc |-> "none", ret |-> "None"]

check_capture(st) ==
  IF Get(st, "capture_order_state") = <<"order">>
  THEN [exc |-> "none", ret |-> "confirm_order"]
  ELSE IF Get(st, "capture_order_state") = <<"conversation">>
  THEN [exc |-> "none", ret |-> "handle_conversation"]
  ELSE IF Get(st, "capture_order_state") = <<"end">>
  THEN [exc |-> "none", ret |-> "END"]
  ELSE [exc |-> "none", ret |-> "None"]

(***************************************************************************)
(* The graph                                                               *)
(***************************************************************************)
Nodes ==
  {"capture_order", "handle_conversation", "confirm_order", "register_order"}

\* set_entry_point naming the wrong node.
entry_point_register == "register_order"

entry_point == "capture_order"

capture_edges == {"confirm_order", "handle_conversation", "END"}

confirmation_edges == {"register_order", "capture_order", "confirm_order"}

\* An extra edge out of handle_conversation into confirm_order.
edges_conversation_to_confirm ==
  { <<"register_order", "END">>, <<"handle_conversation", "confirm_order">> }

\* register_order wired back to the entry node instead of END.
edges_register_loops == { <<"register_order", "capture_order">> }

\* add_edge: the only fixed edge.
edges == { <<"register_order", "END">> }

\* The node run after n has returned st: a fixed edge, a conditional edge
\* whose router result must be a key of the edge map, or no edge at all
\* (handle_conversation), which finishes the run.
Route(n, st) ==
  IF \E e \in edges : e[1] = n
  THEN [exc |-> "none", next |-> (CHOOSE e \in edges : e[1] = n)[2]]
  ELSE IF n = "capture_order"
  THEN LET r == check_capture(st)
       IN IF r.ret \in capture_edges
          THEN [exc |-> "none", next |-> r.ret]
          ELSE [exc |-> "KeyError", next |-> "failed"]
  ELSE IF n = "confirm_order"
  THEN LET r == check_confirmation(st)
       IN IF r.exc # "none"
          THEN [exc |-> r.exc, next |-> "failed"]
          ELSE IF r.ret \in confirmation_edges
          THEN [exc |-> "none", next |-> r.ret]
          ELSE [exc |-> "KeyError", next |-> "failed"]
  ELSE [exc |-> "none", next |-> "END"]

\* A commit that keeps whatever the body wrote before it raised.
Commit_partial(old, new, exc) == new

\* The checkpointer saves the state a step returns only when the step and
\* its router finished without an exception.
Commit(old, new, exc) == IF exc = "none" THEN new ELSE old

Step(n, r, fail) ==
  LET route == IF r.exc # "none"
               THEN [exc |-> r.exc, next |-> "failed"]
               ELSE Route(n, r.st)
  IN /\ state' = Commit(state, r.st, route.exc)
     /\ pc' = route.next
     /\ run' = Append(run, n)
     /\ last' = [node |-> n, exc |-> route.exc, fail |-> fail,
                 validation_result |-> r.validation_result,
                 intent |-> r.intent, user_response |-> r.user_response]

(***************************************************************************)
(* Actions                                                                 *)
(***************************************************************************)
Init ==
  /\ state = [messages |-> <<>>]
  /\ pc = "idle"
  /\ run = <<>>
  /\ last = [node |-> "START", exc |-> "none", fail |-> 0,
             validation_result |-> NoText, intent |-> NoText,
             user_response |-> NoText]
  /\ captured = <<>>

\* fastfood_agent.ainvoke({"messages": [HumanMessage(text)]}, config) on a
\* thread with no run in progress.
Invoke ==
  /\ pc \in {"idle", "END", "failed"}
  /\ Len(state["messages"]) < MaxMessages
  /\ \E text \in UserTurns :
       state' = AppendMessage(state, HumanMessage(text))
  /\ pc' = entry_point
  /\ run' = <<>>
  /\ UNCHANGED <<last, captured>>

CaptureOrder ==
  /\ pc = "capture_order"
  /\ Len(state["messages"]) < MaxMessages
  /\ \E o \in OrderReplies, v \in ValidationReplies, fail \in 0..2 :
       /\ Step("capture_order", capture_order(state, o, v, fail), fail)
       /\ captured' = IF /\ fail = 0
                         /\ lower(strip(v)) = <<"complete">>
                         /\ last'.exc = "none"
                      THEN <<strip(o)>>
                      ELSE captured

HandleConversation ==
  /\ pc = "handle_conversation"
  /\ Len(state["messages"]) < MaxMessages
  /\ \E reply \in ConversationReplies, fail \in 0..1 :
       Step("handle_conversation",
            handle_conversation(state, reply, fail), fail)
  /\ UNCHANGED captured

ConfirmOrder ==
  /\ pc = "confirm_order"
  /\ Len(state["messages"]) < MaxMessages
  /\ \E c \in ConfirmReplies, i \in IntentReplies, fail \in 0..2 :
       Step("confirm_order", confirm_order(state, c, i, fail), fail)
  /\ UNCHANGED captured

RegisterOrder ==
  /\ pc = "register_order"
  /\ Len(state["messages"]) < MaxMessages
  /\ Step("register_order", register_order(state), 0)
  /\ UNCHANGED captured

Next ==
  \/ Invoke
  \/ CaptureOrder
  \/ HandleConversation
  \/ ConfirmOrder
  \/ RegisterOrder

Spec == Init /\ [][Next]_vars

\* st with key k written when opt is <<v>>, untouched when opt is <<>>.
WithOptional(st, k, opt) == IF opt = <<>> THEN st ELSE Put(st, k, opt[1])

\* The states confirm_order(state, config) can be handed when it is called
\* as a function: one user turn, every optional key present or missing.
DirectStates ==
  { WithOptional(
      WithOptional(
        WithOptional([messages |-> <<HumanMessage(t)>>],
                     "order_details", od),
        "capture_order_state", cs),
      "confirm_order_state", fs) :
      t \in {<<"sim">>},
      od \in {<<>>, << <<"1 pizza">> >>},
      cs \in {<<>>, <<"order">>},
      fs \in {<<>>, <<"confirmed">>, <<"redirect_to_capture">>} }

\* confirm_order called on any such state; the graph carries on from there.
InitDirect ==
  /\ state \in DirectStates
  /\ pc = "confirm_order"
  /\ run = <<>>
  /\ last = [node |-> "START", exc |-> "none", fail |-> 0,
             validation_result |-> NoText, intent |-> NoText,
             user_response |-> NoText]
  /\ captured = Get(state, "order_details")

SpecDirect == InitDirect /\ [][Next]_vars

(***************************************************************************)
(* Properties                                                              *)
(***************************************************************************)
LastOf(s) == s[Len(s)]

\* The step runs node n.
Executes(n) == pc = n /\ run' = Append(run, n)

\* The last node of the current run is n.
RunEndsWith(n) == run # <<>> /\ LastOf(run) = n

\* The identifier a message carries: an order_id entry of its metadata, or
\* the part of its text that is not one of final_message's fixed lines.
OrderIdentifier(m) ==
  IF "order_id" \in DOMAIN m.response_metadata
  THEN m.response_metadata["order_id"]
  ELSE SelectSeq(m.content,
                 LAMBDA c : c \notin {final_message[i] :
                                        i \in 1..Len(final_message)})

\* C1: register_order is about to run, or was the last node of the run,
\* only while confirm_order_state is "confirmed" (never unset, never
\* "redirect_to_capture").
C1_RegisterOnlyWhenConfirmed ==
  (pc = "register_order" \/ RunEndsWith("register_order"))
    => Get(state, "confirm_order_state") = <<"confirmed">>

C1_Witness ==
  /\ pc = "END"
  /\ RunEndsWith("register_order")
  /\ Len(run) >= 3

\* C2: a confirm_order execution whose model calls all answer and whose
\* intent is neither "confirm" nor "change" does not fail, is followed by
\* confirm_order again, appends one message and leaves order_details and
\* both status flags as they were, the first visit of a session included.
C2_UnrecognizedReplyReentersConfirm ==
  [][(/\ Executes("confirm_order")
      /\ "order_details" \in DOMAIN state
      /\ last'.fail = 0
      /\ last'.intent \notin {<<"confirm">>, <<"change">>})
     => /\ last'.exc = "none"
        /\ pc' = "confirm_order"
        /\ Len(state'["messages"]) = Len(state["messages"]) + 1
        /\ Get(state', "order_details") = Get(state, "order_details")
        /\ Get(state', "capture_order_state")
             = Get(state, "capture_order_state")
        /\ Get(state', "confirm_order_state")
             = Get(state, "confirm_order_state")]_vars

\* C3: the machine leaves confirm_order for register_order or capture_order
\* only with a user turn at the end of the transcript, and the text that
\* was classified into confirm/change is that user turn.
C3_ConfirmWaitsForUserTurn ==
  [][(Executes("confirm_order")
      /\ pc' \in {"register_order", "capture_order"})
     => /\ LastOf(state'["messages"]).type = "human"
        /\ LastOf(state'["messages"]).content = last'.user_response]_vars

\* C4: a capture_order execution whose validation answer is not exactly
\* "complete" leaves capture_order_state different from "order", is not
\* followed by confirm_order and does not write order_details; and
\* confirm_order is only ever entered from a capture_order execution that
\* judged the order complete.
C4_IncompleteNeverAdvances ==
  [][/\ (/\ Executes("capture_order")
         /\ last'.fail = 0
         /\ last'.validation_result # <<"complete">>)
        => /\ Get(state', "capture_order_state") # <<"order">>
           /\ check_capture(state').ret # "confirm_order"
           /\ pc' # "confirm_order"
           /\ Get(state', "order_details") = Get(state, "order_details")
     /\ (pc' = "confirm_order" /\ pc # "confirm_order")
        => /\ Executes("capture_order")
           /\ last'.validation_result = <<"complete">>]_vars

C4_Witness ==
  /\ last.node = "capture_order"
  /\ last.fail = 0
  /\ last.validation_result = <<"complete", ".">>
  /\ pc = "handle_conversation"
  /\ "order_details" \in DOMAIN state
  /\ Len(run) >= 3

\* C5: a confirm_order execution that detects "confirm" sets
\* confirm_order_state to "confirmed" and is followed by register_order,
\* and the message register_order then appends carries a non-empty order
\* identifier.
C5_ConfirmRegistersWithIdentifier ==
  [][/\ (Executes("confirm_order") /\ last'.intent = <<"confirm">>)
        => /\ Get(state', "confirm_order_state") = <<"confirmed">>
           /\ pc' = "register_order"
     /\ (/\ Executes("register_order")
         /\ last.node = "confirm_order"
         /\ last.intent = <<"confirm">>)
        => OrderIdentifier(LastOf(state'["messages"])) # <<>>]_vars

\* C6: a confirm_order execution that detects "change" leaves the flag
\* different from "confirmed", is followed by capture_order and keeps
\* order_details; order_details changes only in a capture_order execution
\* that judges the order complete.
C6_ChangeKeepsOrderDetails ==
  [][/\ (Executes("confirm_order") /\ last'.intent = <<"change">>)
        => /\ Get(state', "confirm_order_state") # <<"confirmed">>
           /\ pc' = "capture_order"
           /\ Get(state', "order_details") = Get(state, "order_details")
     /\ (Get(state', "order_details") # Get(state, "order_details"))
        => /\ Executes("capture_order")
           /\ last'.validation_result = <<"complete">>]_vars

C6_Witness ==
  /\ last.node = "confirm_order"
  /\ last.intent = <<"change">>
  /\ pc = "capture_order"
  /\ Get(state, "confirm_order_state") = <<"redirect_to_capture">>

\* C7 as stated: once a run has reached END after register_order, no step
\* changes the session state.
C7_TerminalIsFrozen ==
  [][(pc = "END" /\ RunEndsWith("register_order"))
     => state' = state]_vars

\* C7 amended: once a run has reached END after register_order, the only
\* step is a new invocation, which appends the inbound user turn, leaves
\* order_details and both status flags as they were and starts a run at
\* capture_order.
C7_TerminalRestartsAtCapture ==
  [][(pc = "END" /\ RunEndsWith("register_order"))
     => /\ pc' = "capture_order"
        /\ run' = <<>>
        /\ \E text \in UserTurns :
             state' = AppendMessage(state, HumanMessage(text))]_vars

C7_Witness ==
  /\ pc = "capture_order"
  /\ run = <<>>
  /\ last.node = "register_order"
  /\ Get(state, "confirm_order_state") = <<"confirmed">>

\* C8: a handle_conversation execution that returns appends exactly one
\* generated response, and the next node run for the session after
\* handle_conversation is capture_order.
C8_ConversationReturnsToCapture ==
  [][/\ (Executes("handle_conversation") /\ last'.exc = "none")
        => /\ \E reply \in ConversationReplies :
                state' = AppendMessage(state, AIMessage(strip(reply)))
           /\ pc' \in {"END", "capture_order"}
     /\ last.node = "handle_conversation"
        => \A n \in Nodes : Executes(n) => n = "capture_order"]_vars

C8_Witness ==
  /\ last.node = "handle_conversation"
  /\ last.exc = "none"
  /\ pc = "capture_order"
  /\ Get(state, "capture_order_state") = <<"conversation">>

C10_RegisterIsTerminal ==
  [][/\ Executes("register_order")
        => /\ pc' = "END"
           /\ Len(state'["messages"]) = Len(state["messages"]) + 1
           /\ SubSeq(state'["messages"], 1, Len(state["messages"]))
                = state["messages"]
           /\ LastOf(state'["messages"]).content = final_message
     /\ \A i \in 1..(Len(run') - 1) : run'[i] # "register_order"]_vars

C10_Witness ==
  /\ pc = "END"
  /\ RunEndsWith("register_order")
  /\ LastOf(state["messages"]).content = final_message

\* C11: confirm_order entered on a state without order_details raises
\* ValueError whatever the completion calls would have done (none is
\* made), and the turn is aborted with no message appended and no flag
\* changed.
C11_MissingOrderDetailsAborts ==
  [][(Executes("confirm_order") /\ "order_details" \notin DOMAIN state)
     => /\ last'.exc = "ValueError"
        /\ pc' = "failed"
        /\ state' = state]_vars

C11_Witness ==
  /\ pc = "failed"
  /\ last.node = "confirm_order"
  /\ last.exc = "ValueError"
  /\ last.fail = 1
  /\ "order_details" \notin DOMAIN state
  /\ Get(state, "confirm_order_state") = <<"confirmed">>

\* How many times confirm_order has run in the current run.
ConfirmEntries == Cardinality({i \in DOMAIN run : run[i] = "confirm_order"})

\* C12: nothing counts or limits re-entries of confirm_order: however often
\* it has already run, a confirm_order about to run can send the order back
\* to capture_order and a capture_order about to run can enter
\* confirm_order again, within the same run and without register_order or
\* END (only the transcript bound of the model stops the cycle).
C12_ReentryNeverLimited ==
  /\ (/\ pc = "confirm_order"
      /\ "order_details" \in DOMAIN state
      /\ Len(state["messages"]) < MaxMessages)
     => ENABLED (ConfirmOrder /\ pc' = "capture_order")
  /\ (pc = "capture_order" /\ Len(state["messages"]) < MaxMessages)
     => ENABLED (CaptureOrder /\ pc' = "confirm_order")

C12_Witness ==
  /\ ConfirmEntries >= 3
  /\ \A i \in DOMAIN run : run[i] # "register_order"
  /\ pc = "capture_order"

C14_RegisterNeedsFreshConfirm ==
  [][(pc' = "register_order" /\ pc # "register_order")
     => /\ Executes("confirm_order")
        /\ last'.intent = <<"confirm">>]_vars

\* C15: through the compiled graph, order_details is present whenever
\* confirm_order or register_order is about to run; confirm_order never
\* raises its ValueError and no final message carries a description of
\* None.
C15_OrderDetailsPresent ==
  /\ pc \in {"confirm_order", "register_order"}
       => "order_details" \in DOMAIN state
  /\ last.exc # "ValueError"
  /\ \A i \in DOMAIN state["messages"] :
       LET m == state["messages"][i]
       IN "order_details" \in DOMAIN m.response_metadata
            => m.response_metadata["order_details"].description # <<>>

C15_Witness ==
  /\ RunEndsWith("register_order")
  /\ LastOf(state["messages"]).response_metadata["order_details"].description
       = << <<>> >>

\* C16: after a capture_order execution whose completion calls answer,
\* capture_order_state is "order" or "conversation" and check_capture
\* returns a key of its edge map (never None), so the step is followed by
\* confirm_order or handle_conversation; capture_order_state is never
\* "end" and capture_order is never followed directly by END.
C16_CaptureRouterTotal ==
  [][/\ (Executes("capture_order") /\ last'.fail = 0)
        => /\ Get(state', "capture_order_state")
                \in {<<"order">>, <<"conversation">>}
           /\ check_capture(state').ret
                \in capture_edges \ {"END"}
           /\ last'.exc = "none"
           /\ pc' = check_capture(state').ret
     /\ Get(state', "capture_order_state") # <<"end">>
     /\ (pc = "capture_order" /\ pc' = "END")
        => Get(state', "capture_order_state") = <<"end">>]_vars

C16_Witness ==
  /\ last.node = "capture_order"
  /\ last.validation_result = <<"incomplete">>
  /\ last.exc = "none"
  /\ pc = "handle_conversation"
  /\ Get(state, "capture_order_state") = <<"conversation">>
  /\ Get(state, "confirm_order_state") = <<"redirect_to_capture">>

\* C17: the description in the metadata of the message register_order
\* appends is the extraction that the most recent capture_order execution
\* judging the order complete stored (captured); confirm_order,
\* handle_conversation and capture_order executions judging the order
\* incomplete leave order_details as it was.
C17_DescriptionIsLastCapture ==
  [][/\ Executes("register_order")
        => LastOf(state'["messages"]).response_metadata["order_details"]
             .description = captured
     /\ \A n \in {"confirm_order", "handle_conversation"} :
          Executes(n)
            => Get(state', "order_details") = Get(state, "order_details")
     /\ (/\ Executes("capture_order")
         /\ last'.validation_result # <<"complete">>)
        => Get(state', "order_details") = Get(state, "order_details")]_vars

C17_Witness ==
  /\ RunEndsWith("register_order")
  /\ Len(run) >= 5
  /\ captured = << <<"2 refri">> >>
  /\ LastOf(state["messages"]).response_metadata["order_details"]
       .description = << <<"2 refri">> >>

TypeOK ==
  /\ DOMAIN state \subseteq AgentStateKeys
  /\ "messages" \in DOMAIN state
  /\ pc \in Nodes \cup {"idle", "END", "failed"}
====
